---- MODULE Spec2Model ----
(***************************************************************************)
(* Model of the Ollama -> OpenRouter proxy (src/main.go, src/provider.go). *)
(*                                                                         *)
(* Several state machines share this module:                               *)
(*   SpecStream   one streaming request (POST /api/chat or /api/generate)  *)
(*                from the call that opens the upstream stream to the      *)
(*                return of the handler;                                   *)
(*   SpecCatalog  the shared model-name cache of OpenrouterProvider under  *)
(*                concurrent GetModels / GetFullModelName calls;           *)
(*   SpecRequest  one POST request from parsing to its answer;             *)
(*   SpecTags     GET /api/tags;                                           *)
(*   SpecResolve  GetFullModelName against a preloaded cache;              *)
(*   SpecImage    formatImageForAPI;                                       *)
(*   SpecNormalize  the messages built for a chat or completion call;      *)
(*   SpecStreamFair  SpecStream with a handler that keeps running.         *)
(***************************************************************************)
EXTENDS Integers, Sequences, FiniteSets, TLC

(***************************************************************************)
(* Bounds of the model.                                                    *)
(***************************************************************************)
MaxEvents == 3
MaxCalls == 3
MaxCatalog == 2
MaxMessages == 2

SeqsUpTo(S, n) == UNION {[1..k -> S] : k \in 0..n}

(***************************************************************************)
(* Upstream stream events (openai.ChatCompletionStreamResponse).           *)
(* Only Choices[i].Delta.Content and Choices[i].FinishReason are read by   *)
(* the handlers.  An event may carry an empty Choices list.                *)
(***************************************************************************)
Deltas == {"", "Hi"}
FinishReasons == {"", "stop", "length"}
Choice == [delta : Deltas, finish : FinishReasons]
ChoiceLists == {<<>>} \cup {<<c>> : c \in Choice}
Event == [choices : ChoiceLists]

\* What stream.Recv() returns once the events are exhausted: io.EOF or a
\* transport error.
EOF == "EOF"
TransportErrors == {"unexpected EOF", "connection reset"}
StreamEnds == {EOF} \cup TransportErrors

\* errors.Is(err, io.EOF)
IsEOF(err) == err = EOF

Flavors == {"chat", "generate"}
ResolvedNames == {"openai/gpt-4o"}
NoResponse == [choices |-> <<>>]

(***************************************************************************)
(* The catalog: model identifiers, fetch results, aliases, workers.        *)
(* Identifiers are strings; TLC treats a string as a sequence of           *)
(* characters (Len, SubSeq).                                               *)
(***************************************************************************)
FetchLists == {<<>>, <<"a/x">>, <<"b/x", "a/x">>}
Aliases == {"", "x", "zz"}
Workers == {"w1", "w2"}
NoResult == [op |-> "none", name |-> "", err |-> FALSE]

\* Variant of HasSuffix that an empty suffix does not satisfy.
HasSuffixNonEmpty(s, suffix) ==
    /\ Len(suffix) > 0
    /\ Len(s) >= Len(suffix)
    /\ SubSeq(s, Len(s) - Len(suffix) + 1, Len(s)) = suffix

\* strings.HasSuffix
HasSuffix(s, suffix) ==
    /\ Len(s) >= Len(suffix)
    /\ SubSeq(s, Len(s) - Len(suffix) + 1, Len(s)) = suffix

VARIABLES
    \* ---- one streaming request ----
    flavor,            \* which endpoint handles the request
    fullModelName,     \* result of provider.GetFullModelName
    upstream,          \* what the upstream will deliver: [events, end]
    pc,                \* position of the handler
    stream,            \* the upstream stream handle: "none" | "open" | "closed"
    deferred,          \* TRUE once `defer stream.Close()` is registered
    closeCalls,        \* number of stream.Close() calls
    nread,             \* number of events stream.Recv() has returned
    recvEnd,           \* "none" | "eof" | "error": terminal result of Recv seen
    response,          \* the event returned by the last Recv
    lastFinishReason,  \* handler local
    out,               \* the lines written to the ResponseWriter, in order
    flushed,           \* number of lines of out that were flushed
    status,            \* HTTP status committed (0: none yet)
    aborted,           \* TRUE when the handler panicked (gin recovery)
    clientConnected,   \* FALSE once the client has gone away
    \* ---- the catalog cache ----
    modelNames,        \* OpenrouterProvider.modelNames
    wpc,               \* per worker: position
    wop,               \* per worker: operation in progress
    walias,            \* per worker: alias being resolved
    wfetched,          \* per worker: models returned by ListModels
    widx,              \* per worker: loop index of GetModels
    wtmp,              \* per worker: slice value loaded by append
    wold,              \* per worker: cache value this refresh replaced
    wret,              \* per worker: result of the last finished call
    wafter,            \* per worker: call began after a non-empty store
    obsWhole,          \* per worker: every cache read of the current
                       \*   resolution saw a whole catalog
    storedNonEmpty,    \* some refresh has completed storing a non-empty list
    refreshDone,       \* some refresh has completed
    lastCompleted,     \* list fetched by the refresh that completed last
    calls,             \* number of calls begun so far
    emptyFetched,      \* some ListModels call has returned no model
    \* ---- request normalization and the image detector ----
    req,               \* the parsed request being normalized
    msgs,              \* the canonical messages built so far
    npc,               \* position of the normalization
    img,               \* input of formatImageForAPI
    imgOut,            \* formatImageForAPI(img)
    imgOut2,           \* formatImageForAPI(imgOut)
    ipc,               \* position of the image detector run
    \* ---- one request seen from its handler ----
    hreq,              \* the incoming request
    hpc,               \* position of the handler
    hbody,             \* the JSON object answered with c.JSON, if any
    chatCalls,         \* number of provider.Chat / provider.Generate calls
    streamCalls,       \* number of ChatStream / GenerateStream calls
    fetchCalls,        \* number of client.ListModels calls
    modelFilter        \* the allow-list (main.go 20)

streamVars == <<flavor, fullModelName, upstream, pc, stream, deferred,
                closeCalls, nread, recvEnd, response, lastFinishReason, out,
                flushed, status, aborted, clientConnected>>
catalogVars == <<modelNames, wpc, wop, walias, wfetched, widx, wtmp, wold,
                 wret, wafter, obsWhole, storedNonEmpty, refreshDone,
                 lastCompleted, calls, emptyFetched>>
pureVars == <<req, msgs, npc, img, imgOut, imgOut2, ipc>>
handlerVars == <<hreq, hpc, hbody, chatCalls, streamCalls, fetchCalls,
                 modelFilter>>
vars == <<streamVars, catalogVars, pureVars, handlerVars>>

\* No c.JSON answer has been given.
NoBody == [none |-> TRUE]

(***************************************************************************)
(* Envelopes (the JSON objects written, one per line).  created_at is a    *)
(* wall-clock timestamp and is left out.                                   *)
(***************************************************************************)

\* Variant of ChunkEnvelope that loses the delta text of the event.
ChunkEnvelopeNoDelta(fl, m, resp) ==
    IF fl = "chat"
    THEN [model |-> m, message |-> [role |-> "assistant", content |-> ""],
          done |-> FALSE]
    ELSE [model |-> m, response |-> "", done |-> FALSE]

\* main.go 458-466 (chat) and 693-698 (generate).  Indexes Choices[0]
\* without a length check.
ChunkEnvelope(fl, m, resp) ==
    IF fl = "chat"
    THEN [model |-> m,
          message |-> [role |-> "assistant",
                       content |-> resp.choices[1].delta],
          done |-> FALSE]
    ELSE [model |-> m, response |-> resp.choices[1].delta, done |-> FALSE]

\* Variant of FinalEnvelope that keeps done=false.
FinalEnvelopeNotDone(fl, m, reason) ==
    IF fl = "chat"
    THEN [model |-> m, message |-> [role |-> "assistant", content |-> ""],
          done |-> FALSE, finish_reason |-> reason,
          total_duration |-> 0, load_duration |-> 0,
          prompt_eval_count |-> 0, eval_count |-> 0, eval_duration |-> 0]
    ELSE [model |-> m, response |-> "", done |-> FALSE,
          done_reason |-> reason, context |-> <<1, 2, 3>>,
          total_duration |-> 1000000000, load_duration |-> 5000000,
          prompt_eval_count |-> 20, prompt_eval_duration |-> 200000000,
          eval_count |-> 100, eval_duration |-> 800000000]

\* main.go 491-505 (chat) and 716-729 (generate)
FinalEnvelope(fl, m, reason) ==
    IF fl = "chat"
    THEN [model |-> m, message |-> [role |-> "assistant", content |-> ""],
          done |-> TRUE, finish_reason |-> reason,
          total_duration |-> 0, load_duration |-> 0,
          prompt_eval_count |-> 0, eval_count |-> 0, eval_duration |-> 0]
    ELSE [model |-> m, response |-> "", done |-> TRUE,
          done_reason |-> reason, context |-> <<1, 2, 3>>,
          total_duration |-> 1000000000, load_duration |-> 5000000,
          prompt_eval_count |-> 20, prompt_eval_duration |-> 200000000,
          eval_count |-> 100, eval_duration |-> 800000000]

\* main.go 445 and 680
ErrorEnvelope(err) == [error |-> "Stream error: " \o err]

\* Variant of SaveFinishReason that keeps the first reason seen.
SaveFinishReasonFirstWins(last, resp) ==
    IF Len(resp.choices) > 0 /\ resp.choices[1].finish # "" /\ last = ""
    THEN resp.choices[1].finish
    ELSE last

\* main.go 453-455 and 688-690
SaveFinishReason(last, resp) ==
    IF Len(resp.choices) > 0 /\ resp.choices[1].finish # ""
    THEN resp.choices[1].finish
    ELSE last

\* main.go 486-488 and 712-714
DefaultFinishReason(last) == IF last = "" THEN "stop" ELSE last

\* json.Marshal of a map whose values are strings, booleans, integers and
\* maps of strings never returns an error, so the branches at main.go 470,
\* 508, 702 and 732 are never taken.
MarshalFails(v) == FALSE

\* gin.ResponseWriter embeds http.Flusher, so the assertion at main.go 425
\* and 663 always succeeds.
FlusherOK == TRUE

\* `defer stream.Close()` (main.go 414, 655): the handle after the handler
\* returns normally.
RunDeferred(d, s) == IF d THEN "closed" ELSE s

\* Variant of OnPanic in which the Close is not deferred but called at the
\* end of the handler, so that a panic skips it.
OnPanicLeak(d, s) == s

\* The handle after the handler panics: Go runs deferred calls while
\* unwinding, before gin's recovery middleware (gin.Default) takes over.
OnPanic(d, s) == RunDeferred(d, s)

\* return from the handler (any return statement after line 414 / 655)
HandlerReturn ==
    /\ pc' = "done"
    /\ stream' = RunDeferred(deferred, stream)
    /\ closeCalls' = IF deferred THEN closeCalls + 1 ELSE closeCalls

(***************************************************************************)
(* The streaming request.                                                  *)
(***************************************************************************)
\* NewOpenrouterProvider (provider.go 104-107): modelNames is empty; no
\* request is running.
CatalogIdle ==
    /\ modelNames = <<>>
    /\ wpc = [w \in Workers |-> "idle"]
    /\ wop = [w \in Workers |-> "none"]
    /\ walias = [w \in Workers |-> ""]
    /\ wfetched = [w \in Workers |-> <<>>]
    /\ widx = [w \in Workers |-> 0]
    /\ wtmp = [w \in Workers |-> <<>>]
    /\ wold = [w \in Workers |-> <<>>]
    /\ wret = [w \in Workers |-> NoResult]
    /\ wafter = [w \in Workers |-> FALSE]
    /\ obsWhole = [w \in Workers |-> TRUE]
    /\ storedNonEmpty = FALSE
    /\ refreshDone = FALSE
    /\ lastCompleted = <<>>
    /\ calls = 0
    /\ emptyFetched = FALSE

\* No normalization and no image detection is in progress.
PureIdle ==
    /\ req = [kind |-> "none"]
    /\ msgs = <<>>
    /\ npc = "idle"
    /\ img = ""
    /\ imgOut = ""
    /\ imgOut2 = ""
    /\ ipc = "idle"

\* No request is being followed through its handler.
HandlerIdle ==
    /\ hreq = [kind |-> "none"]
    /\ hpc = "idle"
    /\ hbody = NoBody
    /\ chatCalls = 0
    /\ streamCalls = 0
    /\ fetchCalls = 0
    /\ modelFilter = {}

StreamIdle ==
    /\ pc = "open"
    /\ stream = "none"
    /\ deferred = FALSE
    /\ closeCalls = 0
    /\ nread = 0
    /\ recvEnd = "none"
    /\ response = NoResponse
    /\ lastFinishReason = ""
    /\ out = <<>>
    /\ flushed = 0
    /\ status = 0
    /\ aborted = FALSE
    /\ clientConnected = TRUE

StreamInit ==
    /\ flavor \in Flavors
    /\ fullModelName \in ResolvedNames
    /\ upstream \in [events : SeqsUpTo(Event, MaxEvents), end : StreamEnds]
    /\ StreamIdle
    /\ CatalogIdle
    /\ PureIdle
    /\ HandlerIdle

\* provider.ChatStream / provider.GenerateStream fails (main.go 408-413,
\* 649-654): a JSON error with status 500, no stream handle.
OpenStreamFails ==
    /\ pc = "open"
    /\ status' = 500
    /\ hbody' = [error |-> "upstream error"]
    /\ pc' = "done"
    /\ UNCHANGED <<flavor, fullModelName, upstream, stream, deferred,
                   closeCalls, nread, recvEnd, response, lastFinishReason,
                   out, flushed, aborted, clientConnected>>
    /\ UNCHANGED <<catalogVars, pureVars, hreq, hpc, chatCalls, streamCalls,
                   fetchCalls, modelFilter>>

\* The stream is opened, its Close is deferred, the NDJSON headers are set
\* and the flusher is obtained (main.go 408-432, 649-669).
OpenStreamOK ==
    /\ pc = "open"
    /\ deferred' = TRUE
    /\ lastFinishReason' = ""
    /\ IF FlusherOK
       THEN /\ pc' = "recv"
            /\ stream' = "open"
            /\ closeCalls' = closeCalls
       ELSE /\ pc' = "done"
            /\ stream' = "closed"
            /\ closeCalls' = closeCalls + 1
    /\ UNCHANGED <<flavor, fullModelName, upstream, nread, recvEnd, response,
                   out, flushed, status, aborted, clientConnected>>
    /\ UNCHANGED <<catalogVars, pureVars, handlerVars>>

\* stream.Recv() returns the next event (main.go 436, 673)
StreamRecvEvent ==
    /\ pc = "recv"
    /\ nread < Len(upstream.events)
    /\ response' = upstream.events[nread + 1]
    /\ nread' = nread + 1
    /\ pc' = "emit"
    /\ UNCHANGED <<flavor, fullModelName, upstream, stream, deferred,
                   closeCalls, recvEnd, lastFinishReason, out, flushed,
                   status, aborted, clientConnected>>
    /\ UNCHANGED <<catalogVars, pureVars, handlerVars>>

\* Variant of StreamRecvEOF without the break: the loop goes on reading.
StreamRecvEOFNoBreak ==
    /\ pc = "recv"
    /\ nread = Len(upstream.events)
    /\ IsEOF(upstream.end)
    /\ recvEnd' = "eof"
    /\ pc' = "recv"
    /\ UNCHANGED <<flavor, fullModelName, upstream, stream, deferred,
                   closeCalls, nread, response, lastFinishReason, out,
                   flushed, status, aborted, clientConnected>>
    /\ UNCHANGED <<catalogVars, pureVars, handlerVars>>

\* stream.Recv() returns io.EOF: break out of the loop (main.go 437-440,
\* 674-677)
StreamRecvEOF ==
    /\ pc = "recv"
    /\ nread = Len(upstream.events)
    /\ IsEOF(upstream.end)
    /\ recvEnd' = "eof"
    /\ pc' = "final"
    /\ UNCHANGED <<flavor, fullModelName, upstream, stream, deferred,
                   closeCalls, nread, response, lastFinishReason, out,
                   flushed, status, aborted, clientConnected>>
    /\ UNCHANGED <<catalogVars, pureVars, handlerVars>>

\* Variant of StreamRecvError that breaks out of the loop after the error
\* line instead of returning.
StreamRecvErrorThenBreak ==
    /\ pc = "recv"
    /\ nread = Len(upstream.events)
    /\ ~IsEOF(upstream.end)
    /\ recvEnd' = "error"
    /\ out' = Append(out, ErrorEnvelope(upstream.end))
    /\ flushed' = Len(out')
    /\ status' = 200
    /\ pc' = "final"
    /\ UNCHANGED <<flavor, fullModelName, upstream, stream, deferred,
                   closeCalls, nread, response, lastFinishReason, aborted,
                   clientConnected>>
    /\ UNCHANGED <<catalogVars, pureVars, handlerVars>>

\* stream.Recv() returns another error: write the error line, flush, return
\* (main.go 441-450, 678-685)
StreamRecvError ==
    /\ pc = "recv"
    /\ nread = Len(upstream.events)
    /\ ~IsEOF(upstream.end)
    /\ recvEnd' = "error"
    /\ out' = Append(out, ErrorEnvelope(upstream.end))
    /\ flushed' = Len(out')
    /\ status' = 200
    /\ HandlerReturn
    /\ UNCHANGED <<flavor, fullModelName, upstream, deferred, nread, response,
                   lastFinishReason, aborted, clientConnected>>
    /\ UNCHANGED <<catalogVars, pureVars, handlerVars>>

\* The loop body after a successful Recv (main.go 452-479, 687-708).
\* response.Choices[0] is indexed without a length check: with an empty
\* Choices list the handler panics (index out of range); gin's recovery
\* answers 500 without a body when no line has been written yet.
StreamEmit ==
    /\ pc = "emit"
    /\ lastFinishReason' = SaveFinishReason(lastFinishReason, response)
    /\ IF Len(response.choices) = 0
       THEN /\ aborted' = TRUE
            /\ pc' = "done"
            /\ stream' = OnPanic(deferred, stream)
            /\ closeCalls' = IF stream' # stream THEN closeCalls + 1
                                                ELSE closeCalls
            /\ status' = IF status = 0 THEN 500 ELSE status
            /\ UNCHANGED <<out, flushed>>
       ELSE IF MarshalFails(ChunkEnvelope(flavor, fullModelName, response))
       THEN /\ HandlerReturn
            /\ UNCHANGED <<out, flushed, status, aborted>>
       ELSE /\ out' = Append(out, ChunkEnvelope(flavor, fullModelName,
                                                response))
            /\ flushed' = Len(out')
            /\ status' = 200
            /\ pc' = "recv"
            /\ UNCHANGED <<stream, closeCalls, aborted>>
    /\ UNCHANGED <<flavor, fullModelName, upstream, deferred, nread, recvEnd,
                   response, clientConnected>>
    /\ UNCHANGED <<catalogVars, pureVars, handlerVars>>

\* After the loop: the final envelope (main.go 486-515, 712-738)
StreamFinal ==
    /\ pc = "final"
    /\ lastFinishReason' = DefaultFinishReason(lastFinishReason)
    /\ IF MarshalFails(FinalEnvelope(flavor, fullModelName,
                                     lastFinishReason'))
       THEN UNCHANGED <<out, flushed, status>>
       ELSE /\ out' = Append(out, FinalEnvelope(flavor, fullModelName,
                                                lastFinishReason'))
            /\ flushed' = Len(out')
            /\ status' = 200
    /\ HandlerReturn
    /\ UNCHANGED <<flavor, fullModelName, upstream, deferred, nread, recvEnd,
                   response, aborted, clientConnected>>
    /\ UNCHANGED <<catalogVars, pureVars, handlerVars>>

\* The client goes away while the handler runs.  Nothing in the handler
\* looks at the request context, the upstream call uses
\* context.Background() (provider.go 176, 338), and the errors of
\* fmt.Fprintf are ignored.
ClientDisconnect ==
    /\ pc \in {"recv", "emit", "final"}
    /\ clientConnected
    /\ clientConnected' = FALSE
    /\ UNCHANGED <<flavor, fullModelName, upstream, pc, stream, deferred,
                   closeCalls, nread, recvEnd, response, lastFinishReason,
                   out, flushed, status, aborted>>
    /\ UNCHANGED <<catalogVars, pureVars, handlerVars>>

StreamNext ==
    \/ OpenStreamFails
    \/ OpenStreamOK
    \/ StreamRecvEvent
    \/ StreamRecvEOF
    \/ StreamRecvError
    \/ StreamEmit
    \/ StreamFinal
    \/ ClientDisconnect

SpecStream == StreamInit /\ [][StreamNext]_vars

(***************************************************************************)
(* Properties of the streaming request.                                    *)
(***************************************************************************)
IsChunkLine(l) == "done" \in DOMAIN l /\ l.done = FALSE
IsTerminalLine(l) == "done" \in DOMAIN l /\ l.done = TRUE
IsErrorLine(l) == "error" \in DOMAIN l
DeltaText(l) == IF "message" \in DOMAIN l THEN l.message.content
                ELSE l.response
HasFinishReason(l) == "finish_reason" \in DOMAIN l \/ "done_reason" \in DOMAIN l
FinishReasonOf(l) == IF "finish_reason" \in DOMAIN l THEN l.finish_reason
                     ELSE l.done_reason
CarriesFinish(ev) == Len(ev.choices) > 0 /\ ev.choices[1].finish # ""
Streamed == deferred

\* C1: when the handler of a streamed request has finished, the lines it
\* wrote are one event line per upstream event followed by the terminal line
\* (upstream ended with end-of-stream) or by one error line and no terminal
\* line (upstream ended with a transport error) -- for every sequence of
\* upstream events, events with an empty choices list included.
C1_LineCountIsEventsPlusOne ==
    (pc = "done" /\ Streamed) =>
        /\ Len(out) = Len(upstream.events) + 1
        /\ \A i \in 1..Len(upstream.events) : IsChunkLine(out[i])
        /\ IF IsEOF(upstream.end)
           THEN IsTerminalLine(out[Len(out)])
           ELSE IsErrorLine(out[Len(out)])

\* C2: while streaming, the i-th line written is the done=false envelope
\* with the delta text of the i-th upstream event, and every line for the
\* events read so far is written and flushed before the next event is read.
C2_LinePerEventInOrder ==
    /\ \A i \in 1..Len(out) :
          IsChunkLine(out[i]) =>
             /\ i <= nread
             /\ Len(upstream.events[i].choices) > 0
             /\ DeltaText(out[i]) = upstream.events[i].choices[1].delta
             /\ \A j \in 1..i : IsChunkLine(out[j])
    /\ pc = "recv" => (Len(out) = nread /\ flushed = nread
                       /\ \A i \in 1..nread : IsChunkLine(out[i]))
    /\ pc = "emit" => (Len(out) = nread - 1 /\ flushed = nread - 1)

C2_Witness ==
    /\ pc = "recv"
    /\ nread = 2
    /\ Len(out) = 2
    /\ DeltaText(out[1]) = "Hi"
    /\ DeltaText(out[2]) = ""
    /\ nread < Len(upstream.events)

\* C3: a done=true envelope is written only after upstream signalled
\* end-of-stream; it carries empty delta text, it is the last line, the
\* handler has finished when it exists (nothing follows it), and a handler
\* that saw end-of-stream and finished wrote exactly one.
C3_OneTerminalEnvelopeLast ==
    /\ \A i \in 1..Len(out) :
          IsTerminalLine(out[i]) =>
             /\ i = Len(out)
             /\ DeltaText(out[i]) = ""
             /\ recvEnd = "eof"
             /\ pc = "done"
    /\ (pc = "done" /\ recvEnd = "eof") =>
          (Len(out) > 0 /\ IsTerminalLine(out[Len(out)]))
    /\ recvEnd = "eof" => pc \in {"final", "done"}

C3_Witness ==
    /\ pc = "done"
    /\ recvEnd = "eof"
    /\ Len(out) = 3
    /\ IsTerminalLine(out[3])
    /\ DeltaText(out[1]) = "Hi"

\* C4: the terminal envelope carries the finish reason of the last upstream
\* event that carried one, or "stop" if none did; no done=false envelope
\* carries a finish reason.
RECURSIVE LastFinishIn(_, _)
LastFinishIn(evs, k) ==
    IF k = 0 THEN "stop"
    ELSE IF CarriesFinish(evs[k]) THEN evs[k].choices[1].finish
    ELSE LastFinishIn(evs, k - 1)

C4_TerminalFinishReason ==
    \A i \in 1..Len(out) :
       /\ IsChunkLine(out[i]) => ~HasFinishReason(out[i])
       /\ IsTerminalLine(out[i]) =>
             /\ HasFinishReason(out[i])
             /\ FinishReasonOf(out[i])
                   = LastFinishIn(upstream.events, Len(upstream.events))

C4_Witness ==
    /\ pc = "done"
    /\ Len(out) = 4
    /\ IsTerminalLine(out[4])
    /\ FinishReasonOf(out[4]) = "length"
    /\ upstream.events[1].choices[1].finish = "stop"
    /\ upstream.events[2].choices[1].finish = "length"
    /\ upstream.events[3].choices[1].finish = ""

\* C5: a transport error from Recv makes the handler write exactly one error
\* envelope {error: message} as its last line and finish: there is no
\* done=true envelope, and all the lines before it are the event lines.
C5_ErrorEnvelopeThenStop ==
    /\ \A i \in 1..Len(out) :
          IsErrorLine(out[i]) =>
             /\ i = Len(out)
             /\ recvEnd = "error"
             /\ out[i] = [error |-> "Stream error: " \o upstream.end]
    /\ recvEnd = "error" =>
          /\ pc = "done"
          /\ nread = Len(upstream.events)
          /\ Len(out) = nread + 1
          /\ IsErrorLine(out[Len(out)])
          /\ \A i \in 1..Len(out) : ~IsTerminalLine(out[i])

C5_Witness ==
    /\ recvEnd = "error"
    /\ pc = "done"
    /\ Len(out) = 3
    /\ IsErrorLine(out[3])
    /\ upstream.end = "connection reset"

\* C6: the upstream stream handle is open exactly while the handler that
\* opened it runs: it is closed, once, when the handler finishes, whatever
\* the exit path (normal end, transport error, panic, client gone).
C6_StreamClosedOnEveryExit ==
    /\ pc = "done" => stream # "open"
    /\ (pc = "done" /\ Streamed) => (stream = "closed" /\ closeCalls = 1)
    /\ (pc \in {"recv", "emit", "final"}) => (stream = "open" /\ closeCalls = 0)

C6_Witness ==
    /\ pc = "done"
    /\ aborted
    /\ ~clientConnected
    /\ stream = "closed"
    /\ nread < Len(upstream.events)

\* C7: once the client has disconnected, the handler reads no further event
\* from upstream and writes no further line.
C7_NoProductionAfterDisconnect ==
    [][(~clientConnected) => (nread' = nread /\ out' = out)]_vars

\* The statistics fields of a terminal envelope.
StatFields == {"total_duration", "load_duration", "prompt_eval_count",
               "prompt_eval_duration", "eval_count", "eval_duration"}

\* C25: every statistics field of a terminal envelope is zero (the stream
\* loop reads no usage summary from the upstream, so no real count is
\* ever available).
C25_TerminalStatisticsZero ==
    \A i \in 1..Len(out) :
       IsTerminalLine(out[i]) =>
          \A f \in StatFields \cap DOMAIN out[i] : out[i][f] = 0

\* The steps of the handler goroutine (everything but the client).
HandlerStep ==
    \/ OpenStreamFails
    \/ OpenStreamOK
    \/ StreamRecvEvent
    \/ StreamRecvEOF
    \/ StreamRecvError
    \/ StreamEmit
    \/ StreamFinal

\* The handler goroutine keeps running and every call it makes (opening
\* the stream, stream.Recv, the writes) returns.
SpecStreamFair == SpecStream /\ WF_vars(HandlerStep)

\* The handler has returned and the stream handle is not open.
Terminated == pc = "done" /\ stream # "open"

\* C30: the handler eventually terminates with the stream handle closed,
\* and once Recv has returned end-of-stream or an error it is not called
\* again.
C30_StreamingTerminates ==
    /\ <>Terminated
    /\ [][recvEnd # "none" => (nread' = nread /\ recvEnd' = recvEnd
                               /\ pc' \notin {"recv", "emit"})]_vars

C30_Witness ==
    /\ Terminated
    /\ recvEnd = "error"
    /\ nread = 2
    /\ closeCalls = 1

(***************************************************************************)
(* The catalog cache under concurrent requests.                            *)
(*                                                                         *)
(* gin serves every request on its own goroutine and modelNames is read    *)
(* and written without any lock, so the statements of GetModels and        *)
(* GetFullModelName of different requests interleave.  One action is one   *)
(* access to the shared slice: a load of o.modelNames (len, range, the     *)
(* argument of append) or a store to it.  `range o.modelNames` evaluates   *)
(* the slice once; append never rewrites the elements below the length of  *)
(* a slice value already loaded, so the loop runs over the value loaded.   *)
(***************************************************************************)
CatalogInit ==
    /\ flavor = "chat"
    /\ fullModelName = "openai/gpt-4o"
    /\ upstream = [events |-> <<>>, end |-> EOF]
    /\ StreamIdle
    /\ CatalogIdle
    /\ PureIdle
    /\ HandlerIdle

\* Ghost: is the cache value v, read by worker self, a whole catalog?  While
\* other workers are between the clear and the end of their append loop it
\* must be the list one of them replaced or the list one of them fetched.
Whole(v, self) ==
    LET writers == {u \in Workers \ {self} : wpc[u] \in {"gm_loop", "gm_store"}}
    IN  writers = {} \/ \E u \in writers : v \in {wold[u], wfetched[u]}

\* first match of the exact-match loop (provider.go 438-442)
ExactMatch(names, alias) == \E i \in 1..Len(names) : names[i] = alias

\* first match of the suffix loop (provider.go 445-449); 0 if none
FirstSuffixMatch(names, alias) ==
    IF \E i \in 1..Len(names) : HasSuffix(names[i], alias)
    THEN CHOOSE i \in 1..Len(names) :
            /\ HasSuffix(names[i], alias)
            /\ \A j \in 1..(i - 1) : ~HasSuffix(names[j], alias)
    ELSE 0

\* the locals of a call are dead once it has returned
ClearLocals(w) ==
    /\ wfetched' = [wfetched EXCEPT ![w] = <<>>]
    /\ widx' = [widx EXCEPT ![w] = 0]
    /\ wtmp' = [wtmp EXCEPT ![w] = <<>>]
    /\ wold' = [wold EXCEPT ![w] = <<>>]

\* GET /api/tags: the handler calls provider.GetModels (main.go 85-86)
StartTags(w) ==
    /\ wpc[w] = "idle"
    /\ calls < MaxCalls
    /\ calls' = calls + 1
    /\ wpc' = [wpc EXCEPT ![w] = "gm_fetch"]
    /\ wop' = [wop EXCEPT ![w] = "tags"]
    /\ walias' = [walias EXCEPT ![w] = ""]
    /\ wret' = [wret EXCEPT ![w] = NoResult]
    /\ wafter' = [wafter EXCEPT ![w] = FALSE]
    /\ obsWhole' = [obsWhole EXCEPT ![w] = TRUE]
    /\ UNCHANGED <<modelNames, wfetched, widx, wtmp, wold, storedNonEmpty,
                   refreshDone, lastCompleted, emptyFetched>>
    /\ UNCHANGED <<streamVars, pureVars, handlerVars>>

\* A chat or generate handler calls provider.GetFullModelName(alias)
\* (main.go 342, 398, 592)
StartResolve(w, alias) ==
    /\ wpc[w] = "idle"
    /\ calls < MaxCalls
    /\ calls' = calls + 1
    /\ wpc' = [wpc EXCEPT ![w] = "gf_len"]
    /\ wop' = [wop EXCEPT ![w] = "resolve"]
    /\ walias' = [walias EXCEPT ![w] = alias]
    /\ wret' = [wret EXCEPT ![w] = NoResult]
    /\ wafter' = [wafter EXCEPT ![w] = storedNonEmpty]
    /\ obsWhole' = [obsWhole EXCEPT ![w] = TRUE]
    /\ UNCHANGED <<modelNames, wfetched, widx, wtmp, wold, storedNonEmpty,
                   refreshDone, lastCompleted, emptyFetched>>
    /\ UNCHANGED <<streamVars, pureVars, handlerVars>>

\* Variant of GfLen that never fetches, whatever the length of the cache.
GfLenNoFetch(w) ==
    /\ wpc[w] = "gf_len"
    /\ wpc' = [wpc EXCEPT ![w] = "gf_exact"]
    /\ obsWhole' = [obsWhole EXCEPT ![w] = @ /\ Whole(modelNames, w)]
    /\ UNCHANGED <<modelNames, wop, walias, wfetched, widx, wtmp, wold, wret,
                   wafter, storedNonEmpty, refreshDone, lastCompleted>>
    /\ UNCHANGED <<calls, emptyFetched, streamVars, pureVars, handlerVars>>

\* GetFullModelName: `if len(o.modelNames) == 0` (provider.go 430)
GfLen(w) ==
    /\ wpc[w] = "gf_len"
    /\ wpc' = [wpc EXCEPT ![w] = IF Len(modelNames) = 0 THEN "gm_fetch"
                                                        ELSE "gf_exact"]
    /\ obsWhole' = [obsWhole EXCEPT ![w] = @ /\ Whole(modelNames, w)]
    /\ UNCHANGED <<modelNames, wop, walias, wfetched, widx, wtmp, wold, wret,
                   wafter, storedNonEmpty, refreshDone, lastCompleted>>
    /\ UNCHANGED <<calls, emptyFetched, streamVars, pureVars, handlerVars>>

\* Variant of GmFetchFails in which the cache is cleared before the fetch,
\* so that a failed fetch leaves it empty.
GmFetchFailsCleared(w) ==
    /\ wpc[w] = "gm_fetch"
    /\ wpc' = [wpc EXCEPT ![w] = "idle"]
    /\ wret' = [wret EXCEPT ![w] = [op |-> wop[w], name |-> "", err |-> TRUE]]
    /\ modelNames' = <<>>
    /\ ClearLocals(w)
    /\ UNCHANGED <<wop, walias, wafter, obsWhole, storedNonEmpty,
                   refreshDone, lastCompleted>>
    /\ UNCHANGED <<calls, emptyFetched, streamVars, pureVars, handlerVars>>

\* GetModels: ListModels fails (provider.go 369-372).  The tags handler
\* answers 500 (main.go 87-91); GetFullModelName returns the error
\* (provider.go 432-434).  The cache is not touched.
GmFetchFails(w) ==
    /\ wpc[w] = "gm_fetch"
    /\ wpc' = [wpc EXCEPT ![w] = "idle"]
    /\ wret' = [wret EXCEPT ![w] = [op |-> wop[w], name |-> "", err |-> TRUE]]
    /\ ClearLocals(w)
    /\ UNCHANGED <<modelNames, wop, walias, wafter, obsWhole, storedNonEmpty,
                   refreshDone, lastCompleted>>
    /\ UNCHANGED <<calls, emptyFetched, streamVars, pureVars, handlerVars>>

\* GetModels: ListModels returns the models (provider.go 369)
GmFetchOK(w, models) ==
    /\ wpc[w] = "gm_fetch"
    /\ wpc' = [wpc EXCEPT ![w] = "gm_clear"]
    /\ wfetched' = [wfetched EXCEPT ![w] = models]
    /\ UNCHANGED <<modelNames, wop, walias, widx, wtmp, wold, wret, wafter,
                   obsWhole, storedNonEmpty, refreshDone, lastCompleted>>
    /\ emptyFetched' = (emptyFetched \/ models = <<>>)
    /\ UNCHANGED <<calls, streamVars, pureVars, handlerVars>>

\* GetModels: `o.modelNames = []string{}` (provider.go 375)
GmClear(w) ==
    /\ wpc[w] = "gm_clear"
    /\ wold' = [wold EXCEPT ![w] = modelNames]
    /\ modelNames' = <<>>
    /\ widx' = [widx EXCEPT ![w] = 1]
    /\ wpc' = [wpc EXCEPT ![w] = "gm_loop"]
    /\ UNCHANGED <<wop, walias, wfetched, wtmp, wret, wafter, obsWhole,
                   storedNonEmpty, refreshDone, lastCompleted>>
    /\ UNCHANGED <<calls, emptyFetched, streamVars, pureVars, handlerVars>>

\* GetModels: `append(o.modelNames, apiModel.ID)` loads the slice
\* (provider.go 384)
GmLoad(w) ==
    /\ wpc[w] = "gm_loop"
    /\ widx[w] <= Len(wfetched[w])
    /\ wtmp' = [wtmp EXCEPT ![w] = modelNames]
    /\ wpc' = [wpc EXCEPT ![w] = "gm_store"]
    /\ UNCHANGED <<modelNames, wop, walias, wfetched, widx, wold, wret,
                   wafter, obsWhole, storedNonEmpty, refreshDone,
                   lastCompleted>>
    /\ UNCHANGED <<calls, emptyFetched, streamVars, pureVars, handlerVars>>

\* GetModels: `o.modelNames = append(...)` stores the result
\* (provider.go 384)
GmStore(w) ==
    /\ wpc[w] = "gm_store"
    /\ modelNames' = Append(wtmp[w], wfetched[w][widx[w]])
    /\ widx' = [widx EXCEPT ![w] = @ + 1]
    /\ wpc' = [wpc EXCEPT ![w] = "gm_loop"]
    /\ UNCHANGED <<wop, walias, wfetched, wtmp, wold, wret, wafter, obsWhole,
                   storedNonEmpty, refreshDone, lastCompleted>>
    /\ UNCHANGED <<calls, emptyFetched, streamVars, pureVars, handlerVars>>

\* GetModels returns the models (provider.go 405): to the tags handler,
\* which answers 200 (main.go 92-112), or to GetFullModelName, which goes on
\* to match (provider.go 437).
GmReturn(w) ==
    /\ wpc[w] = "gm_loop"
    /\ widx[w] > Len(wfetched[w])
    /\ refreshDone' = TRUE
    /\ lastCompleted' = wfetched[w]
    /\ storedNonEmpty' = (storedNonEmpty \/ Len(wfetched[w]) > 0)
    /\ IF wop[w] = "tags"
       THEN /\ wpc' = [wpc EXCEPT ![w] = "idle"]
            /\ wret' = [wret EXCEPT ![w] = [op |-> "tags", name |-> "",
                                            err |-> FALSE]]
       ELSE /\ wpc' = [wpc EXCEPT ![w] = "gf_exact"]
            /\ wret' = wret
    /\ ClearLocals(w)
    /\ UNCHANGED <<modelNames, wop, walias, wafter, obsWhole>>
    /\ UNCHANGED <<calls, emptyFetched, streamVars, pureVars, handlerVars>>

\* Variant of GfExact without the exact-match loop: the suffix loop runs
\* first.
GfExactSkipped(w) ==
    /\ wpc[w] = "gf_exact"
    /\ obsWhole' = [obsWhole EXCEPT ![w] = @ /\ Whole(modelNames, w)]
    /\ wpc' = [wpc EXCEPT ![w] = "gf_suffix"]
    /\ UNCHANGED <<modelNames, wop, walias, wfetched, widx, wtmp, wold, wret,
                   wafter, storedNonEmpty, refreshDone, lastCompleted>>
    /\ UNCHANGED <<calls, emptyFetched, streamVars, pureVars, handlerVars>>

\* GetFullModelName: the exact-match loop (provider.go 438-442)
GfExact(w) ==
    /\ wpc[w] = "gf_exact"
    /\ obsWhole' = [obsWhole EXCEPT ![w] = @ /\ Whole(modelNames, w)]
    /\ IF ExactMatch(modelNames, walias[w])
       THEN /\ wpc' = [wpc EXCEPT ![w] = "idle"]
            /\ wret' = [wret EXCEPT ![w] = [op |-> "resolve",
                                            name |-> walias[w],
                                            err |-> FALSE]]
       ELSE /\ wpc' = [wpc EXCEPT ![w] = "gf_suffix"]
            /\ wret' = wret
    /\ UNCHANGED <<modelNames, wop, walias, wfetched, widx, wtmp, wold,
                   wafter, storedNonEmpty, refreshDone, lastCompleted>>
    /\ UNCHANGED <<calls, emptyFetched, streamVars, pureVars, handlerVars>>

\* GetFullModelName: the suffix loop and the fallback (provider.go 445-453)
GfSuffix(w) ==
    /\ wpc[w] = "gf_suffix"
    /\ obsWhole' = [obsWhole EXCEPT ![w] = @ /\ Whole(modelNames, w)]
    /\ wpc' = [wpc EXCEPT ![w] = "idle"]
    /\ LET i == FirstSuffixMatch(modelNames, walias[w])
       IN  wret' = [wret EXCEPT ![w] =
                      [op |-> "resolve",
                       name |-> IF i > 0 THEN modelNames[i] ELSE walias[w],
                       err |-> FALSE]]
    /\ UNCHANGED <<modelNames, wop, walias, wfetched, widx, wtmp, wold,
                   wafter, storedNonEmpty, refreshDone, lastCompleted>>
    /\ UNCHANGED <<calls, emptyFetched, streamVars, pureVars, handlerVars>>

CatalogNext ==
    \/ \E w \in Workers : StartTags(w)
    \/ \E w \in Workers : \E alias \in Aliases : StartResolve(w, alias)
    \/ \E w \in Workers : GfLen(w)
    \/ \E w \in Workers : GmFetchFails(w)
    \/ \E w \in Workers : \E models \in FetchLists : GmFetchOK(w, models)
    \/ \E w \in Workers : GmClear(w)
    \/ \E w \in Workers : GmLoad(w)
    \/ \E w \in Workers : GmStore(w)
    \/ \E w \in Workers : GmReturn(w)
    \/ \E w \in Workers : GfExact(w)
    \/ \E w \in Workers : GfSuffix(w)

SpecCatalog == CatalogInit /\ [][CatalogNext]_vars

(***************************************************************************)
(* Properties of the catalog cache.                                        *)
(***************************************************************************)

\* C8: every read of the cache that a running GetFullModelName makes while
\* another request refreshes it sees the whole old or the whole new
\* catalog, never an empty or partly filled one that is neither.
C8_ResolverSeesWholeCatalog ==
    \A w \in Workers : obsWhole[w]

\* C9: when all refreshes have completed (no request is running), the cache
\* is exactly the list returned by the fetch of the refresh that completed
\* last: no mixture, no duplicate, no older entry.
C9_CacheIsLastCompletedFetch ==
    ((\A w \in Workers : wpc[w] = "idle") /\ refreshDone)
        => modelNames = lastCompleted

\* C10: a resolution of a non-empty alias that begins after some refresh
\* has stored a non-empty catalog returns without error, whatever the
\* interleaving with refreshes.  (Stated here for the runs in which no fetch
\* ever returned an empty list, so that a violation is due to the
\* interleaving alone.)
C10_ResolutionTotal ==
    \A w \in Workers :
       (wret[w].op = "resolve" /\ wafter[w] /\ walias[w] # ""
          /\ ~emptyFetched)
           => ~wret[w].err

(***************************************************************************)
(* One POST /api/chat or POST /api/generate request followed through its   *)
(* handler: parse, streaming flag, alias resolution, then either the       *)
(* blocking call or the streaming call, whose loop is the one of the       *)
(* streaming request above.  The calls of one request run one after the    *)
(* other, so resolution is a single step here.  The messages sent are      *)
(* built as in the normalization below and do not steer the handler.       *)
(***************************************************************************)
streamLoopVars == <<flavor, upstream, stream, deferred, closeCalls, nread,
                    recvEnd, response, lastFinishReason, out, flushed,
                    aborted, clientConnected>>
catalogCallVars == <<wpc, wop, walias, wfetched, widx, wtmp, wold, wret,
                     wafter, obsWhole, storedNonEmpty, refreshDone,
                     lastCompleted, calls, emptyFetched>>

HandlerRequests ==
    [kind : Flavors, parses : BOOLEAN, stream : {"absent", "true", "false"},
     model : Aliases]

\* What client.ListModels returns.
FetchOutcomes ==
    {[ok |-> FALSE, models |-> <<>>]}
    \cup {[ok |-> TRUE, models |-> m] : m \in FetchLists}

\* What the blocking upstream call returns: an error, or a response with
\* its choices (Message.Content, FinishReason).
BlockingResults ==
    {[err |-> TRUE, choices |-> <<>>], [err |-> FALSE, choices |-> <<>>]}
    \cup {[err |-> FALSE, choices |-> <<[content |-> c, finish |-> f]>>] :
             c \in Deltas, f \in FinishReasons}
    \cup {[err |-> FALSE,
           choices |-> <<[content |-> "Hi", finish |-> "length"],
                         [content |-> "", finish |-> "stop"]>>]}

\* What the upstream stream of the request will deliver.
RequestUpstreams ==
    LET e == [choices |-> <<[delta |-> "Hi", finish |-> ""]>>]
        z == [choices |-> <<>>]
    IN  {[events |-> <<>>, end |-> EOF],
         [events |-> <<>>, end |-> "connection reset"],
         [events |-> <<e>>, end |-> EOF],
         [events |-> <<e>>, end |-> "connection reset"],
         [events |-> <<z>>, end |-> EOF],
         [events |-> <<e, z>>, end |-> EOF]}

\* Variant of streamRequested whose default is false.
streamRequestedDefaultFalse(r) == r.stream = "true"

\* main.go 332-335 and 585-588
streamRequested(r) == IF r.stream = "absent" THEN TRUE ELSE r.stream = "true"

\* GetFullModelName once the cache is filled (provider.go 437-453)
MatchName(names, alias) ==
    IF ExactMatch(names, alias) THEN alias
    ELSE IF FirstSuffixMatch(names, alias) > 0
    THEN names[FirstSuffixMatch(names, alias)]
    ELSE alias

\* Variant of BlockingEnvelope that takes the last choice.
BlockingEnvelopeLastChoice(fl, m, resp) ==
    LET c == resp.choices[Len(resp.choices)]
        finishReason == IF c.finish # "" THEN c.finish ELSE "stop"
    IN  IF fl = "chat"
        THEN [model |-> m,
              message |-> [role |-> "assistant", content |-> c.content],
              done |-> TRUE, finish_reason |-> finishReason]
        ELSE [model |-> m, response |-> c.content, done |-> TRUE,
              done_reason |-> finishReason]

\* ollamaResponse of main.go 362-391 (chat) and 615-642 (generate); the
\* timestamp and the usage-derived numbers are left out.
BlockingEnvelope(fl, m, resp) ==
    LET c == resp.choices[1]
        finishReason == IF c.finish # "" THEN c.finish ELSE "stop"
    IN  IF fl = "chat"
        THEN [model |-> m,
              message |-> [role |-> "assistant", content |-> c.content],
              done |-> TRUE, finish_reason |-> finishReason]
        ELSE [model |-> m, response |-> c.content, done |-> TRUE,
              done_reason |-> finishReason]

RequestInit ==
    /\ hreq \in HandlerRequests
    /\ hpc = "parse"
    /\ hbody = NoBody
    /\ chatCalls = 0
    /\ streamCalls = 0
    /\ fetchCalls = 0
    /\ modelFilter = {}
    /\ modelNames \in {<<>>, <<"b/x", "a/x">>}
    /\ wpc = [w \in Workers |-> "idle"]
    /\ wop = [w \in Workers |-> "none"]
    /\ walias = [w \in Workers |-> ""]
    /\ wfetched = [w \in Workers |-> <<>>]
    /\ widx = [w \in Workers |-> 0]
    /\ wtmp = [w \in Workers |-> <<>>]
    /\ wold = [w \in Workers |-> <<>>]
    /\ wret = [w \in Workers |-> NoResult]
    /\ wafter = [w \in Workers |-> FALSE]
    /\ obsWhole = [w \in Workers |-> TRUE]
    /\ storedNonEmpty = (modelNames # <<>>)
    /\ refreshDone = (modelNames # <<>>)
    /\ lastCompleted = modelNames
    /\ calls = 0
    /\ emptyFetched = FALSE
    /\ flavor = hreq.kind
    /\ fullModelName = ""
    /\ upstream \in RequestUpstreams
    /\ pc = "wait"
    /\ stream = "none"
    /\ deferred = FALSE
    /\ closeCalls = 0
    /\ nread = 0
    /\ recvEnd = "none"
    /\ response = NoResponse
    /\ lastFinishReason = ""
    /\ out = <<>>
    /\ flushed = 0
    /\ status = 0
    /\ aborted = FALSE
    /\ clientConnected = TRUE
    /\ PureIdle

\* Variant of ReqParseFails without the return after the answer.
ReqParseFailsNoReturn ==
    /\ hpc = "parse"
    /\ ~hreq.parses
    /\ status' = 400
    /\ hbody' = [error |-> "Invalid JSON payload"]
    /\ hpc' = "resolve"
    /\ UNCHANGED <<fullModelName, pc, streamLoopVars, catalogVars, pureVars,
                   hreq, chatCalls, streamCalls, fetchCalls, modelFilter>>

\* json.Unmarshal / ShouldBindJSON fails (main.go 168-172, 556-559)
ReqParseFails ==
    /\ hpc = "parse"
    /\ ~hreq.parses
    /\ status' = 400
    /\ hbody' = [error |-> "Invalid JSON payload"]
    /\ hpc' = "done"
    /\ UNCHANGED <<fullModelName, pc, streamLoopVars, catalogVars, pureVars,
                   hreq, chatCalls, streamCalls, fetchCalls, modelFilter>>

\* The body parses; the handler goes on to the resolution.
ReqParseOK ==
    /\ hpc = "parse"
    /\ hreq.parses
    /\ hpc' = "resolve"
    /\ UNCHANGED <<streamVars, catalogVars, pureVars, hreq, hbody, chatCalls,
                   streamCalls, fetchCalls, modelFilter>>

\* Variant of ReqResolve that answers a failed resolution with 500.
ReqResolveServerError(fetch) ==
    /\ hpc = "resolve"
    /\ IF Len(modelNames) = 0
       THEN /\ fetchCalls' = fetchCalls + 1
            /\ IF fetch.ok
               THEN /\ modelNames' = fetch.models
                    /\ fullModelName' = MatchName(fetch.models, hreq.model)
                    /\ hpc' = "call"
                    /\ UNCHANGED <<status, hbody>>
               ELSE /\ status' = 500
                    /\ hbody' = [error |-> "failed to get models"]
                    /\ hpc' = "done"
                    /\ UNCHANGED <<modelNames, fullModelName>>
       ELSE /\ fullModelName' = MatchName(modelNames, hreq.model)
            /\ hpc' = "call"
            /\ UNCHANGED <<modelNames, fetchCalls, status, hbody>>
    /\ UNCHANGED <<pc, streamLoopVars, catalogCallVars, pureVars, hreq,
                   chatCalls, streamCalls, modelFilter>>

\* provider.GetFullModelName(request.Model) and its error branch
\* (main.go 342-348, 398-404, 592-597; provider.go 428-454, 365-385)
ReqResolve(fetch) ==
    /\ hpc = "resolve"
    /\ IF Len(modelNames) = 0
       THEN /\ fetchCalls' = fetchCalls + 1
            /\ IF fetch.ok
               THEN /\ modelNames' = fetch.models
                    /\ fullModelName' = MatchName(fetch.models, hreq.model)
                    /\ hpc' = "call"
                    /\ UNCHANGED <<status, hbody>>
               ELSE /\ status' = 404
                    /\ hbody' = [error |-> "failed to get models"]
                    /\ hpc' = "done"
                    /\ UNCHANGED <<modelNames, fullModelName>>
       ELSE /\ fullModelName' = MatchName(modelNames, hreq.model)
            /\ hpc' = "call"
            /\ UNCHANGED <<modelNames, fetchCalls, status, hbody>>
    /\ UNCHANGED <<pc, streamLoopVars, catalogCallVars, pureVars, hreq,
                   chatCalls, streamCalls, modelFilter>>

\* The non-streaming branch: provider.Chat / provider.Generate and the
\* answer (main.go 350-394, 601-646)
ReqBlockingCall(resp) ==
    /\ hpc = "call"
    /\ ~streamRequested(hreq)
    /\ chatCalls' = chatCalls + 1
    /\ response' = [choices |-> resp.choices]
    /\ IF resp.err
       THEN /\ status' = 500
            /\ hbody' = [error |-> "upstream error"]
       ELSE IF Len(resp.choices) = 0
       THEN /\ status' = 500
            /\ hbody' = [error |-> "No response from model"]
       ELSE /\ status' = 200
            /\ hbody' = BlockingEnvelope(flavor, fullModelName, resp)
    /\ hpc' = "done"
    /\ UNCHANGED <<flavor, fullModelName, upstream, pc, stream, deferred,
                   closeCalls, nread, recvEnd, lastFinishReason, out,
                   flushed, aborted, clientConnected>>
    /\ UNCHANGED <<catalogVars, pureVars, hreq, streamCalls, fetchCalls,
                   modelFilter>>

\* The streaming branch: provider.ChatStream / provider.GenerateStream is
\* called (main.go 408, 649); its outcome and the loop are the actions of
\* the streaming request.
ReqStartStream ==
    /\ hpc = "call"
    /\ streamRequested(hreq)
    /\ streamCalls' = streamCalls + 1
    /\ pc' = "open"
    /\ hpc' = "stream"
    /\ UNCHANGED <<fullModelName, status, streamLoopVars, catalogVars,
                   pureVars, hreq, hbody, chatCalls, fetchCalls,
                   modelFilter>>

RequestNext ==
    \/ ReqParseFails
    \/ ReqParseOK
    \/ \E fetch \in FetchOutcomes : ReqResolve(fetch)
    \/ \E resp \in BlockingResults : ReqBlockingCall(resp)
    \/ ReqStartStream
    \/ OpenStreamFails
    \/ OpenStreamOK
    \/ StreamRecvEvent
    \/ StreamRecvEOF
    \/ StreamRecvError
    \/ StreamEmit
    \/ StreamFinal
    \/ ClientDisconnect

SpecRequest == RequestInit /\ [][RequestNext]_vars

\* b is a structured JSON error: {"error": message}.
IsErrorBody(b) == DOMAIN b = {"error"}

\* C21: a failed resolution is answered 404 with one JSON error, without
\* any chat-completion call and without a line; a failed blocking call
\* and a failed opening of the stream are answered 500 with one JSON
\* error and without a line; once a line has been written the status is
\* 200 and no JSON error object is answered.
C21_ErrorsBeforeStreaming ==
    [][/\ (hpc = "resolve" /\ hpc' # "resolve")
             => \/ hpc' = "call" /\ status' = 0 /\ hbody' = NoBody
                \/ /\ hpc' = "done"
                   /\ fetchCalls' = 1
                   /\ modelNames' = <<>>
                   /\ status' = 404
                   /\ IsErrorBody(hbody')
                   /\ out' = <<>>
                   /\ chatCalls' = 0
                   /\ streamCalls' = 0
       /\ (hpc' = "done" /\ status' = 404)
             => chatCalls' = 0 /\ streamCalls' = 0 /\ out' = <<>>
       /\ (hpc = "call" /\ hpc' = "done" /\ status' # 200)
             => status' = 500 /\ IsErrorBody(hbody') /\ out' = <<>>
       /\ (pc = "open" /\ pc' = "done" /\ stream' = "none")
             => status' = 500 /\ IsErrorBody(hbody') /\ out' = <<>>
       /\ Len(out') > 0 => status' = 200 /\ hbody' = NoBody]_vars

C21_Witness ==
    /\ hpc = "done"
    /\ hreq.parses
    /\ status = 404
    /\ fetchCalls = 1
    /\ hbody = [error |-> "failed to get models"]

\* C22: after the blocking call, a response without choices (or no
\* response) is answered 500 with a JSON error and the handler has not
\* panicked; otherwise the answer is 200 with one JSON object: done=true,
\* the resolved model id, the text of the first choice and its finish
\* reason, "stop" when that is empty.
C22_BlockingAnswer ==
    (hpc = "done" /\ chatCalls = 1) =>
       /\ ~aborted
       /\ out = <<>>
       /\ IF Len(response.choices) = 0
          THEN status = 500 /\ IsErrorBody(hbody)
          ELSE /\ status = 200
               /\ hbody.done = TRUE
               /\ hbody.model = fullModelName
               /\ fullModelName = MatchName(modelNames, hreq.model)
               /\ IF hreq.kind = "chat"
                  THEN /\ hbody.message.content = response.choices[1].content
                       /\ hbody.finish_reason =
                             IF response.choices[1].finish = ""
                             THEN "stop"
                             ELSE response.choices[1].finish
                  ELSE /\ hbody.response = response.choices[1].content
                       /\ hbody.done_reason =
                             IF response.choices[1].finish = ""
                             THEN "stop"
                             ELSE response.choices[1].finish

C22_Witness ==
    /\ hpc = "done"
    /\ chatCalls = 1
    /\ response.choices = <<>>
    /\ status = 500
    /\ hbody = [error |-> "No response from model"]

\* C23: a request whose body does not parse is answered 400 with a JSON
\* error; no step of it calls the upstream (catalog fetch, blocking call,
\* streaming call) or changes the catalog cache.
C23_ParseFailureCallsNothing ==
    [][~hreq.parses =>
          /\ modelNames' = modelNames
          /\ fetchCalls' = 0
          /\ chatCalls' = 0
          /\ streamCalls' = 0
          /\ pc' = "wait"
          /\ hpc' # hpc =>
                /\ hpc' = "done"
                /\ status' = 400
                /\ IsErrorBody(hbody')]_vars

C23_Witness ==
    /\ hpc = "done"
    /\ ~hreq.parses
    /\ status = 400
    /\ modelNames = <<"b/x", "a/x">>

\* C24: a request invokes at most one chat-completion operation, at most
\* once; once its resolution has succeeded and the handler has made its
\* call, that is the streaming operation exactly when the stream flag is
\* true or absent and the blocking operation exactly when it is false.
C24_OneOperationByStreamFlag ==
    /\ chatCalls + streamCalls <= 1
    /\ streamCalls = 1 => hreq.stream \in {"absent", "true"}
    /\ chatCalls = 1 => hreq.stream = "false"
    /\ (hpc \in {"stream", "done"} /\ hreq.parses /\ status # 404) =>
          /\ (streamCalls = 1) <=> (hreq.stream \in {"absent", "true"})
          /\ (chatCalls = 1) <=> (hreq.stream = "false")

C24_Witness ==
    /\ hpc = "stream"
    /\ pc = "done"
    /\ hreq.stream = "absent"
    /\ streamCalls = 1
    /\ chatCalls = 0
    /\ status = 500

(***************************************************************************)
(* The resolver alone: one request at a time calls GetModels or            *)
(* GetFullModelName (the same actions as above, run by one worker), from a *)
(* cache that earlier refreshes may have filled.                           *)
(***************************************************************************)
ResolveIds == {"x", "a/x", "b/x", "anthropic/claude-sonnet-4"}
ResolveCatalogs == SeqsUpTo(ResolveIds, MaxCatalog)
ResolveAliases == {"", "x", "a/x", "/x", "zz", "sonnet", "claude-sonnet-4"}

ResolveInit ==
    /\ modelNames \in ResolveCatalogs
    /\ wpc = [w \in Workers |-> "idle"]
    /\ wop = [w \in Workers |-> "none"]
    /\ walias = [w \in Workers |-> ""]
    /\ wfetched = [w \in Workers |-> <<>>]
    /\ widx = [w \in Workers |-> 0]
    /\ wtmp = [w \in Workers |-> <<>>]
    /\ wold = [w \in Workers |-> <<>>]
    /\ wret = [w \in Workers |-> NoResult]
    /\ wafter = [w \in Workers |-> FALSE]
    /\ obsWhole = [w \in Workers |-> TRUE]
    /\ storedNonEmpty = (modelNames # <<>>)
    /\ refreshDone = (modelNames # <<>>)
    /\ lastCompleted = modelNames
    /\ calls = 0
    /\ emptyFetched = FALSE
    /\ flavor = "chat"
    /\ fullModelName = "openai/gpt-4o"
    /\ upstream = [events |-> <<>>, end |-> EOF]
    /\ StreamIdle
    /\ PureIdle
    /\ HandlerIdle

ResolveNext ==
    \/ StartTags("w1")
    \/ \E alias \in ResolveAliases : StartResolve("w1", alias)
    \/ GfLen("w1")
    \/ GmFetchFails("w1")
    \/ \E models \in FetchLists : GmFetchOK("w1", models)
    \/ GmClear("w1")
    \/ GmLoad("w1")
    \/ GmStore("w1")
    \/ GmReturn("w1")
    \/ GfExact("w1")
    \/ GfSuffix("w1")

SpecResolve == ResolveInit /\ [][ResolveNext]_vars

\* s ends with a: some tail of s is a.
EndsWith(s, a) == \E k \in 0..Len(s) : SubSeq(s, k + 1, Len(s)) = a

\* r is what the matching precedence gives for alias against names.
MatchesPrecedence(names, alias, r) ==
    IF \E i \in 1..Len(names) : names[i] = alias
    THEN r = alias
    ELSE IF \E i \in 1..Len(names) : EndsWith(names[i], alias)
    THEN \E i \in 1..Len(names) :
            /\ EndsWith(names[i], alias)
            /\ \A j \in 1..(i - 1) : ~EndsWith(names[j], alias)
            /\ r = names[i]
    ELSE r = alias

\* Worker w has returned from a resolution against a non-empty cache.
Resolved(w) ==
    /\ wpc[w] = "idle"
    /\ wret[w].op = "resolve"
    /\ ~wret[w].err
    /\ modelNames # <<>>

\* C11 (as claimed): against a non-empty cache the result is the alias if
\* an identifier equals it, else the first identifier in cache order that
\* ends with it, else the alias; and alias "sonnet" against
\* ["anthropic/claude-sonnet-4"] gives "anthropic/claude-sonnet-4".
C11_PrecedenceAndSonnetExample ==
    \A w \in Workers :
       Resolved(w) =>
          /\ MatchesPrecedence(modelNames, walias[w], wret[w].name)
          /\ (walias[w] = "sonnet"
                /\ modelNames = <<"anthropic/claude-sonnet-4">>)
                => wret[w].name = "anthropic/claude-sonnet-4"

\* C11 (amended): the same precedence; "sonnet" is not a suffix of
\* "anthropic/claude-sonnet-4", so it comes back unmodified, while alias
\* "claude-sonnet-4" resolves to "anthropic/claude-sonnet-4".
C11_MatchingPrecedence ==
    \A w \in Workers :
       Resolved(w) =>
          /\ MatchesPrecedence(modelNames, walias[w], wret[w].name)
          /\ (walias[w] = "sonnet"
                /\ modelNames = <<"anthropic/claude-sonnet-4">>)
                => wret[w].name = "sonnet"
          /\ (walias[w] = "claude-sonnet-4"
                /\ modelNames = <<"anthropic/claude-sonnet-4">>)
                => wret[w].name = "anthropic/claude-sonnet-4"

C11_Witness ==
    /\ Resolved("w1")
    /\ modelNames = <<"a/x", "x">>
    /\ walias["w1"] = "x"
    /\ wret["w1"].name = "x"

\* C12: a resolution fetches the catalog exactly when it finds the cache
\* empty, and before it matches; when that fetch fails it returns an error
\* and no identifier and the cache is still empty.
C12_FetchIffCacheEmpty ==
    [][\A w \in Workers :
          /\ (wpc[w] = "gf_len" /\ wpc'[w] # "gf_len")
                => /\ (wpc'[w] = "gm_fetch") <=> (modelNames = <<>>)
                   /\ wpc'[w] \in {"gm_fetch", "gf_exact"}
          /\ (wop'[w] = "resolve" /\ wpc[w] # "gm_fetch"
                /\ wpc'[w] = "gm_fetch")
                => wpc[w] = "gf_len"
          /\ (wop[w] = "resolve" /\ wpc[w] = "gm_fetch" /\ wpc'[w] = "idle")
                => /\ wret'[w] = [op |-> "resolve", name |-> "",
                                  err |-> TRUE]
                   /\ modelNames' = <<>>]_vars

C12_Witness ==
    /\ wpc["w1"] = "idle"
    /\ wret["w1"] = [op |-> "resolve", name |-> "", err |-> TRUE]
    /\ walias["w1"] = "x"
    /\ modelNames = <<>>

\* C13: after a call whose fetch failed, the cache is exactly the catalog
\* it held before (the list of the last successful refresh).
C13_FailedFetchKeepsCache ==
    \A w \in Workers :
       (wpc[w] = "idle" /\ wret[w].err) => modelNames = lastCompleted

C13_Witness ==
    /\ wpc["w1"] = "idle"
    /\ wret["w1"].op = "tags"
    /\ wret["w1"].err
    /\ modelNames = <<"b/x", "a/x">>
    /\ calls = 2

\* C29: against a non-empty cache the empty alias resolves to the first
\* identifier of the cache.
C29_EmptyAliasFirstIdentifier ==
    \A w \in Workers :
       (Resolved(w) /\ walias[w] = "") => wret[w].name = modelNames[1]

C29_Witness ==
    /\ Resolved("w1")
    /\ walias["w1"] = ""
    /\ modelNames = <<"b/x", "a/x">>
    /\ wret["w1"].name = "b/x"

(***************************************************************************)
(* GET /api/tags (main.go 85-113): GetModels, then the allow-list.         *)
(***************************************************************************)
TagFetchOutcomes ==
    {[ok |-> FALSE, models |-> <<>>]}
    \cup {[ok |-> TRUE, models |-> m] :
             m \in {<<>>, <<"a/x">>, <<"b/x", "a/x">>, <<"y", "a/x">>,
                    <<"a/x", "c/y", "b/x">>, <<"c/y", "y">>}}
\* Lines of the models-filter file.
TagFilters == SUBSET {"x", "y", "a/x", "zz"}

\* parts := strings.Split(apiModel.ID, "/"); name := parts[len(parts)-1]
RECURSIVE LastPart(_)
LastPart(id) ==
    IF \E i \in 1..Len(id) : SubSeq(id, i, i) = "/"
    THEN LET i == CHOOSE k \in 1..Len(id) :
                     /\ SubSeq(id, k, k) = "/"
                     /\ \A j \in 1..(k - 1) : SubSeq(id, j, j) # "/"
         IN  IF i = Len(id) THEN "" ELSE LastPart(SubSeq(id, i + 1, Len(id)))
    ELSE id

\* The Model values GetModels returns (provider.go 377-403), as far as the
\* handler passes them on: Name and Model are both the last part of the
\* id.
ModelsOf(ids) ==
    [i \in 1..Len(ids) |-> [name |-> LastPart(ids[i]),
                            model |-> LastPart(ids[i])]]

\* Variant of FilterModels that applies an empty allow-list as well.
FilterModelsAlways(models, filter) ==
    LET Listed(m) == m.model \in filter
    IN  SelectSeq(models, Listed)

\* The loop of the handler (main.go 94-110)
FilterModels(models, filter) ==
    LET Listed(m) == m.model \in filter
    IN  IF Cardinality(filter) > 0 THEN SelectSeq(models, Listed) ELSE models

TagsInit ==
    /\ modelFilter \in TagFilters
    /\ hreq = [kind |-> "tags"]
    /\ hpc = "tags"
    /\ hbody = NoBody
    /\ chatCalls = 0
    /\ streamCalls = 0
    /\ fetchCalls = 0
    /\ modelNames \in {<<>>, <<"a/x">>}
    /\ wpc = [w \in Workers |-> "idle"]
    /\ wop = [w \in Workers |-> "none"]
    /\ walias = [w \in Workers |-> ""]
    /\ wfetched = [w \in Workers |-> <<>>]
    /\ widx = [w \in Workers |-> 0]
    /\ wtmp = [w \in Workers |-> <<>>]
    /\ wold = [w \in Workers |-> <<>>]
    /\ wret = [w \in Workers |-> NoResult]
    /\ wafter = [w \in Workers |-> FALSE]
    /\ obsWhole = [w \in Workers |-> TRUE]
    /\ storedNonEmpty = (modelNames # <<>>)
    /\ refreshDone = (modelNames # <<>>)
    /\ lastCompleted = modelNames
    /\ calls = 0
    /\ emptyFetched = FALSE
    /\ flavor = "chat"
    /\ fullModelName = "openai/gpt-4o"
    /\ upstream = [events |-> <<>>, end |-> EOF]
    /\ StreamIdle
    /\ PureIdle

\* provider.GetModels fails: 500 with the error (main.go 86-91)
TagsFetchFails ==
    /\ hpc = "tags"
    /\ fetchCalls' = fetchCalls + 1
    /\ status' = 500
    /\ hbody' = [error |-> "upstream error"]
    /\ hpc' = "done"
    /\ UNCHANGED <<fullModelName, pc, streamLoopVars, catalogVars, pureVars,
                   hreq, chatCalls, streamCalls, modelFilter>>

\* provider.GetModels succeeds, the allow-list is applied, 200 with the
\* list (main.go 86-112)
TagsRespond(fetch) ==
    /\ hpc = "tags"
    /\ fetch.ok
    /\ fetchCalls' = fetchCalls + 1
    /\ modelNames' = fetch.models
    /\ status' = 200
    /\ hbody' = [models |-> FilterModels(ModelsOf(fetch.models), modelFilter)]
    /\ hpc' = "done"
    /\ UNCHANGED <<fullModelName, pc, streamLoopVars, catalogCallVars,
                   pureVars, hreq, chatCalls, streamCalls, modelFilter>>

TagsNext ==
    \/ TagsFetchFails
    \/ \E fetch \in TagFetchOutcomes : TagsRespond(fetch)

SpecTags == TagsInit /\ [][TagsNext]_vars

\* The listing entry of catalog identifier id.
ListingOf(id) == [name |-> LastPart(id), model |-> LastPart(id)]

\* t is what follows the last "/" of id (id itself when it has none).
IsShortName(id, t) ==
    /\ EndsWith(id, t)
    /\ \A i \in 1..Len(t) : SubSeq(t, i, i) # "/"
    /\ Len(t) < Len(id) =>
          SubSeq(id, Len(id) - Len(t), Len(id) - Len(t)) = "/"

\* C26 (as claimed): the listing holds, in catalog order, the models whose
\* identifier is in the allow-list, or every model when the allow-list is
\* empty; a failed fetch gives 500 and no list.
C26_ListedByIdentifier ==
    hpc = "done" =>
       IF status = 200
       THEN LET Listed(id) == modelFilter = {} \/ id \in modelFilter
                ids == SelectSeq(modelNames, Listed)
            IN  hbody = [models |-> [i \in 1..Len(ids) |-> ListingOf(ids[i])]]
       ELSE status = 500 /\ IsErrorBody(hbody)

\* C26 (amended): the listing holds, in catalog order, the models whose
\* short name (what follows the last "/" of the identifier) is in the
\* allow-list, or every model when the allow-list is empty; each entry
\* carries the short name; a failed fetch gives 500 and no list.
C26_ListedByShortName ==
    hpc = "done" =>
       IF status = 200
       THEN LET Listed(id) ==
                   \/ modelFilter = {}
                   \/ \E t \in modelFilter : IsShortName(id, t)
                ids == SelectSeq(modelNames, Listed)
            IN  /\ DOMAIN hbody = {"models"}
                /\ Len(hbody.models) = Len(ids)
                /\ \A i \in 1..Len(ids) :
                      /\ IsShortName(ids[i], hbody.models[i].model)
                      /\ hbody.models[i].name = hbody.models[i].model
       ELSE status = 500 /\ IsErrorBody(hbody)

C26_Witness ==
    /\ hpc = "done"
    /\ status = 200
    /\ modelFilter = {"x", "a/x"}
    /\ modelNames = <<"a/x", "c/y", "b/x">>
    /\ hbody = [models |-> <<[name |-> "x", model |-> "x"],
                             [name |-> "x", model |-> "x"]>>]

(***************************************************************************)
(* formatImageForAPI (provider.go 16-59), applied to one input and then to *)
(* its own result.                                                         *)
(***************************************************************************)
\* The white space strings.TrimSpace removes, as far as the inputs below
\* contain it.
WhiteSpace == {" ", "\t", "\n", "\r"}

RECURSIVE TrimLeft(_)
TrimLeft(s) ==
    IF Len(s) > 0 /\ SubSeq(s, 1, 1) \in WhiteSpace
    THEN TrimLeft(SubSeq(s, 2, Len(s)))
    ELSE s

RECURSIVE TrimRight(_)
TrimRight(s) ==
    IF Len(s) > 0 /\ SubSeq(s, Len(s), Len(s)) \in WhiteSpace
    THEN TrimRight(SubSeq(s, 1, Len(s) - 1))
    ELSE s

\* strings.TrimSpace
TrimSpace(s) == TrimRight(TrimLeft(s))

\* strings.HasPrefix
HasPrefix(s, prefix) ==
    Len(s) >= Len(prefix) /\ SubSeq(s, 1, Len(prefix)) = prefix

\* strings.Contains
Contains(s, substr) ==
    \E i \in 1..(Len(s) - Len(substr) + 1) :
       SubSeq(s, i, i + Len(substr) - 1) = substr

\* Variant of formatImageForAPI whose fallback type is png.
formatImageForAPIDefaultPng(imgBase64) ==
    IF Len(imgBase64) = 0 THEN ""
    ELSE LET t == TrimSpace(imgBase64) IN
         IF HasPrefix(t, "data:image/") /\ Contains(t, ";base64,") THEN t
         ELSE IF HasPrefix(t, "/9j/") THEN "data:image/jpeg;base64," \o t
         ELSE IF HasPrefix(t, "iVBOR") THEN "data:image/png;base64," \o t
         ELSE IF HasPrefix(t, "R0lGOD") THEN "data:image/gif;base64," \o t
         ELSE IF HasPrefix(t, "UklGR") THEN "data:image/webp;base64," \o t
         ELSE "data:image/png;base64," \o t

\* Variant of formatImageForAPI without the test for an existing prefix.
formatImageForAPINoPrefixTest(imgBase64) ==
    IF Len(imgBase64) = 0 THEN ""
    ELSE LET t == TrimSpace(imgBase64) IN
         IF HasPrefix(t, "/9j/") THEN "data:image/jpeg;base64," \o t
         ELSE IF HasPrefix(t, "iVBOR") THEN "data:image/png;base64," \o t
         ELSE IF HasPrefix(t, "R0lGOD") THEN "data:image/gif;base64," \o t
         ELSE IF HasPrefix(t, "UklGR") THEN "data:image/webp;base64," \o t
         ELSE "data:image/jpeg;base64," \o t

formatImageForAPI(imgBase64) ==
    IF Len(imgBase64) = 0 THEN ""
    ELSE LET t == TrimSpace(imgBase64) IN
         IF HasPrefix(t, "data:image/") /\ Contains(t, ";base64,") THEN t
         ELSE IF HasPrefix(t, "/9j/") THEN "data:image/jpeg;base64," \o t
         ELSE IF HasPrefix(t, "iVBOR") THEN "data:image/png;base64," \o t
         ELSE IF HasPrefix(t, "R0lGOD") THEN "data:image/gif;base64," \o t
         ELSE IF HasPrefix(t, "UklGR") THEN "data:image/webp;base64," \o t
         ELSE "data:image/jpeg;base64," \o t

\* Image strings a client can send: a payload, possibly with white space
\* around it.
ImagePads == {"", " ", "\n"}
ImageCores ==
    {"", "/9j/4AAQ", "iVBORw0KG", "R0lGODlh", "UklGRi", "AAAA", "/9jX",
     "iVBO", "9j/4", "data:image/png;base64,iVBOR", "data:image/png,AAAA",
     "data:image/gif;base64,"}
ImageInputs ==
    {l \o c \o r : <<l, c, r>> \in ImagePads \X ImageCores \X ImagePads}

ImageInit ==
    /\ img \in ImageInputs
    /\ imgOut = ""
    /\ imgOut2 = ""
    /\ ipc = "start"
    /\ req = [kind |-> "none"]
    /\ msgs = <<>>
    /\ npc = "idle"
    /\ flavor = "chat"
    /\ fullModelName = "openai/gpt-4o"
    /\ upstream = [events |-> <<>>, end |-> EOF]
    /\ StreamIdle
    /\ CatalogIdle
    /\ HandlerIdle

\* url := formatImageForAPI(img)
FormatOnce ==
    /\ ipc = "start"
    /\ imgOut' = formatImageForAPI(img)
    /\ ipc' = "once"
    /\ UNCHANGED <<img, imgOut2, req, msgs, npc, streamVars, catalogVars,
                   handlerVars>>

\* formatImageForAPI applied to its own result
FormatTwice ==
    /\ ipc = "once"
    /\ imgOut2' = formatImageForAPI(imgOut)
    /\ ipc' = "twice"
    /\ UNCHANGED <<img, imgOut, req, msgs, npc, streamVars, catalogVars,
                   handlerVars>>

ImageNext == FormatOnce \/ FormatTwice

SpecImage == ImageInit /\ [][ImageNext]_vars

\* s begins with a data:image/...;base64, prefix.
CarriesPrefix(s) ==
    /\ HasPrefix(s, "data:image/")
    /\ \E k \in (Len("data:image/") + 1)..(Len(s) - Len(";base64,") + 1) :
          SubSeq(s, k, k + Len(";base64,") - 1) = ";base64,"

\* The image type the leading characters of s stand for.
SignatureType(s) ==
    CASE HasPrefix(s, "/9j/") -> "jpeg"
      [] HasPrefix(s, "iVBOR") -> "png"
      [] HasPrefix(s, "R0lGOD") -> "gif"
      [] HasPrefix(s, "UklGR") -> "webp"
      [] OTHER -> "jpeg"

\* t is x without the white space around it.
StrippedOf(x, t) ==
    \E a, b \in 0..Len(x) :
       /\ a + b <= Len(x)
       /\ t = SubSeq(x, a + 1, Len(x) - b)
       /\ \A i \in 1..a : SubSeq(x, i, i) \in WhiteSpace
       /\ \A i \in (Len(x) - b + 1)..Len(x) : SubSeq(x, i, i) \in WhiteSpace
       /\ Len(t) > 0 => /\ SubSeq(t, 1, 1) \notin WhiteSpace
                        /\ SubSeq(t, Len(t), Len(t)) \notin WhiteSpace

\* C14 (as claimed): for a non-empty input without a data:image/...;base64,
\* prefix the result is "data:image/<type>;base64," followed by the input,
\* the type taken from the leading characters of the input.
C14_PrefixPlusInput ==
    (ipc # "start" /\ img # "" /\ ~CarriesPrefix(img)) =>
        imgOut = "data:image/" \o SignatureType(img) \o ";base64," \o img

\* C14 (amended): the input is first stripped of surrounding white space;
\* if the stripped input has no data:image/...;base64, prefix, the result
\* is "data:image/<type>;base64," followed by the stripped input, the type
\* taken from the leading characters of the stripped input; the result of
\* a non-empty input is never empty.
C14_PrefixPlusTrimmedInput ==
    (ipc # "start" /\ img # "") =>
        /\ imgOut # ""
        /\ \A t \in {SubSeq(img, a, b) : a \in 1..(Len(img) + 1),
                                        b \in 0..Len(img)} :
              (StrippedOf(img, t) /\ ~CarriesPrefix(t)) =>
                 imgOut = "data:image/" \o SignatureType(t)
                             \o ";base64," \o t

C14_Witness ==
    /\ ipc = "once"
    /\ img = " AAAA\n"
    /\ imgOut = "data:image/jpeg;base64,AAAA"

\* C15 (as claimed): applying the detector to its own result changes
\* nothing, and an input that begins with a data:image/...;base64, prefix
\* is returned unchanged.
C15_IdempotentAndPrefixedUnchanged ==
    (ipc = "twice" /\ img # "") =>
        /\ imgOut2 = imgOut
        /\ CarriesPrefix(img) => imgOut = img

\* C15 (amended): applying the detector to its own result changes nothing,
\* and an input that begins with a data:image/...;base64, prefix is
\* returned without the white space around it (unchanged when there is
\* none).
C15_IdempotentAndPrefixedTrimmed ==
    (ipc = "twice" /\ img # "") =>
        /\ imgOut2 = imgOut
        /\ CarriesPrefix(img) => StrippedOf(img, imgOut)

C15_Witness ==
    /\ ipc = "twice"
    /\ img = "/9j/4AAQ"
    /\ imgOut = "data:image/jpeg;base64,/9j/4AAQ"
    /\ imgOut2 = imgOut

(***************************************************************************)
(* Request normalization: the /api/chat handler turns the messages of the  *)
(* request into canonical messages (main.go 187-327); Generate and         *)
(* GenerateStream build them from prompt, system prompt and images         *)
(* (provider.go 187-247, 268-328).                                         *)
(***************************************************************************)
Roles == {"system", "user", "assistant"}
Contents == {"", "hi"}
ImageLists ==
    {<<>>, <<"">>, <<"iVBORw0KG">>, <<"", "/9j/4AAQ">>,
     <<"iVBORw0KG", "/9j/4AAQ">>}
MessageWithImages == [role : Roles, content : Contents, images : ImageLists]
ChatRequests ==
    [kind : {"chat"}, messages : SeqsUpTo(MessageWithImages, MaxMessages),
     images : ImageLists]
GenerateRequests ==
    [kind : {"generate"}, prompt : Contents, system : {"", "sys"},
     images : ImageLists, stream : BOOLEAN]

\* openai.ChatMessagePart of type text
TextPart(t) == [type |-> "text", text |-> t]
\* openai.ChatMessagePart of type image_url
ImagePart(u) == [type |-> "image_url", url |-> u]
\* Variant of PlainMessage that makes every message a user message.
PlainMessageAsUser(role, content) ==
    [role |-> "user", content |-> content, multi |-> <<>>]

\* openai.ChatCompletionMessage{Role, Content}
PlainMessage(role, content) ==
    [role |-> role, content |-> content, multi |-> <<>>]

\* The image loops of main.go 226-257 and provider.go 215-236: one part per
\* image, empty entries skipped.
RECURSIVE ImagePartsSkippingEmpty(_)
ImagePartsSkippingEmpty(images) ==
    IF images = <<>> THEN <<>>
    ELSE (IF Len(Head(images)) = 0
          THEN <<>>
          ELSE <<ImagePart(formatImageForAPI(Head(images)))>>)
         \o ImagePartsSkippingEmpty(Tail(images))

\* The image loop of main.go 309-319: one part per entry.
ImagePartsAll(images) ==
    [i \in 1..Len(images) |-> ImagePart(formatImageForAPI(images[i]))]

\* Variant of MultiContentMessage that keeps the text in Content.
MultiContentMessageKeepsText(role, prompt, contentItems) ==
    [role |-> role, content |-> prompt, multi |-> contentItems]

\* msg.Content = ""; msg.MultiContent = contentItems
MultiContentMessage(role, prompt, contentItems) ==
    [role |-> role, content |-> "", multi |-> contentItems]

\* Variant of SkipsMessage that does not look at the role.
SkipsMessageAnyRole(customMsg) == Len(customMsg.images) = 0

\* `customMsg.Role != openai.ChatMessageRoleUser || len(customMsg.Images) == 0`
SkipsMessage(customMsg) ==
    customMsg.role # "user" \/ Len(customMsg.images) = 0

\* Variant of lastUserMsgIndex that scans from the front.
firstUserMsgIndex(messages) ==
    IF \E i \in 1..Len(messages) : messages[i].role = "user"
    THEN CHOOSE i \in 1..Len(messages) :
            /\ messages[i].role = "user"
            /\ \A j \in 1..(i - 1) : messages[j].role # "user"
    ELSE 0

\* The scan from the end for a message of role user (main.go 275-281);
\* 0 stands for the -1 of the code.
lastUserMsgIndex(messages) ==
    IF \E i \in 1..Len(messages) : messages[i].role = "user"
    THEN CHOOSE i \in 1..Len(messages) :
            /\ messages[i].role = "user"
            /\ \A j \in (i + 1)..Len(messages) : messages[j].role # "user"
    ELSE 0

NormalizeInit ==
    /\ req \in ChatRequests \cup GenerateRequests
    /\ msgs = <<>>
    /\ npc = IF req.kind = "chat" THEN "convert" ELSE "build"
    /\ img = ""
    /\ imgOut = ""
    /\ imgOut2 = ""
    /\ ipc = "idle"
    /\ flavor = req.kind
    /\ fullModelName = "openai/gpt-4o"
    /\ upstream = [events |-> <<>>, end |-> EOF]
    /\ StreamIdle
    /\ CatalogIdle
    /\ HandlerIdle

\* main.go 187-194: custom messages to standard messages
ChatConvert ==
    /\ npc = "convert"
    /\ msgs' = [i \in 1..Len(req.messages) |->
                  PlainMessage(req.messages[i].role, req.messages[i].content)]
    /\ npc' = "msg_images"
    /\ UNCHANGED <<req, img, imgOut, imgOut2, ipc, streamVars, catalogVars,
                   handlerVars>>

\* main.go 204-265: images carried by the messages
ChatMessageImages ==
    /\ npc = "msg_images"
    /\ msgs' = [i \in 1..Len(msgs) |->
                  IF SkipsMessage(req.messages[i])
                  THEN msgs[i]
                  ELSE MultiContentMessage(msgs[i].role, msgs[i].content,
                          <<TextPart(msgs[i].content)>>
                          \o ImagePartsSkippingEmpty(req.messages[i].images))]
    /\ npc' = "top_images"
    /\ UNCHANGED <<req, img, imgOut, imgOut2, ipc, streamVars, catalogVars,
                   handlerVars>>

\* main.go 268-327: top-level images go to the last user message; after
\* it the handler goes on to the upstream call (main.go 332).
ChatTopLevelImages ==
    /\ npc = "top_images"
    /\ IF Len(req.images) > 0 /\ Len(msgs) > 0 /\ lastUserMsgIndex(msgs) > 0
       THEN LET k == lastUserMsgIndex(msgs)
                userMsg == msgs[k]
                contentItems ==
                   (IF Len(userMsg.multi) > 0
                    THEN userMsg.multi
                    ELSE <<TextPart(userMsg.content)>>)
                   \o ImagePartsAll(req.images)
            IN  msgs' = [msgs EXCEPT ![k] =
                           MultiContentMessage(userMsg.role, userMsg.content,
                                               contentItems)]
       ELSE UNCHANGED msgs
    /\ npc' = "call"
    /\ UNCHANGED <<req, img, imgOut, imgOut2, ipc, streamVars, catalogVars,
                   handlerVars>>

\* messages of Generate (provider.go 187-247)
GenerateMessages(prompt, systemPrompt, images) ==
    LET messages == (IF systemPrompt # ""
                     THEN <<PlainMessage("system", systemPrompt)>>
                     ELSE <<>>) \o <<PlainMessage("user", prompt)>>
    IN  IF Len(images) > 0
        THEN [messages EXCEPT ![Len(messages)] =
                 MultiContentMessage("user", prompt,
                    <<TextPart(prompt)>> \o ImagePartsSkippingEmpty(images))]
        ELSE messages

\* Variant of GenerateStreamMessages that replaces the first message.
GenerateStreamMessagesFirst(prompt, systemPrompt, images) ==
    LET messages == (IF systemPrompt # ""
                     THEN <<PlainMessage("system", systemPrompt)>>
                     ELSE <<>>) \o <<PlainMessage("user", prompt)>>
    IN  IF Len(images) > 0
        THEN [messages EXCEPT ![1] =
                 MultiContentMessage("user", prompt,
                    <<TextPart(prompt)>> \o ImagePartsSkippingEmpty(images))]
        ELSE messages

\* messages of GenerateStream (provider.go 268-328)
GenerateStreamMessages(prompt, systemPrompt, images) ==
    LET messages == (IF systemPrompt # ""
                     THEN <<PlainMessage("system", systemPrompt)>>
                     ELSE <<>>) \o <<PlainMessage("user", prompt)>>
    IN  IF Len(images) > 0
        THEN [messages EXCEPT ![Len(messages)] =
                 MultiContentMessage("user", prompt,
                    <<TextPart(prompt)>> \o ImagePartsSkippingEmpty(images))]
        ELSE messages

\* provider.Generate or provider.GenerateStream builds its messages
GenerateBuild ==
    /\ npc = "build"
    /\ msgs' = IF req.stream
               THEN GenerateStreamMessages(req.prompt, req.system, req.images)
               ELSE GenerateMessages(req.prompt, req.system, req.images)
    /\ npc' = "call"
    /\ UNCHANGED <<req, img, imgOut, imgOut2, ipc, streamVars, catalogVars,
                   handlerVars>>

NormalizeNext ==
    \/ ChatConvert
    \/ ChatMessageImages
    \/ ChatTopLevelImages
    \/ GenerateBuild

SpecNormalize == NormalizeInit /\ [][NormalizeNext]_vars

\* Normalization is over: the canonical messages are ready for the call.
Normalized == npc = "call"

IsImagePart(p) == p.type = "image_url"
IsNonEmpty(x) == x # ""
\* The ImageRef parts of canonical message m, in order.
ImageRefs(m) == SelectSeq(m.multi, IsImagePart)
\* The non-empty entries of an image list, in order.
NonEmptyEntries(images) == SelectSeq(images, IsNonEmpty)

\* Message i of a chat request is its last message of role user.
IsLastUser(i) ==
    /\ req.kind = "chat"
    /\ req.messages[i].role = "user"
    /\ \A j \in (i + 1)..Len(req.messages) : req.messages[j].role # "user"

\* The text canonical message i was given in the request.
OriginalText(i) ==
    IF req.kind = "chat" THEN req.messages[i].content
    ELSE IF i < Len(msgs) THEN req.system
    ELSE req.prompt

\* The image list that came with message i itself.
OwnImages(i) ==
    IF req.kind = "chat" THEN req.messages[i].images
    ELSE IF i = Len(msgs) THEN req.images
    ELSE <<>>

\* The top-level image list, for the message it is meant for.
TopImages(i) == IF IsLastUser(i) THEN req.images ELSE <<>>

\* C16: no image part has an empty URL, every image URL is a data URL, and
\* a user message has as many image parts as non-empty image entries were
\* supplied for it (its own and, for the last user message of a chat
\* request, the top-level ones).
C16_NoPartForEmptyImage ==
    Normalized =>
       \A i \in 1..Len(msgs) :
          /\ \A j \in 1..Len(msgs[i].multi) :
                IsImagePart(msgs[i].multi[j]) =>
                   /\ msgs[i].multi[j].url # ""
                   /\ CarriesPrefix(msgs[i].multi[j].url)
          /\ msgs[i].role = "user" =>
                Len(ImageRefs(msgs[i])) =
                   Len(NonEmptyEntries(OwnImages(i)))
                   + Len(NonEmptyEntries(TopImages(i)))

\* C17: when a chat request has top-level images, the parts of its last
\* user message are the Text part with the original text, then its own
\* images in order, then the top-level images in order.
C17_TextThenOwnThenTopLevel ==
    (Normalized /\ req.kind = "chat" /\ req.images # <<>>) =>
       \A i \in 1..Len(msgs) :
          IsLastUser(i) =>
             msgs[i].multi =
                <<TextPart(req.messages[i].content)>>
                \o ImagePartsAll(NonEmptyEntries(req.messages[i].images))
                \o ImagePartsAll(NonEmptyEntries(req.images))

\* C18: the step that handles the top-level images changes at most the
\* user message with the highest index, to which it adds image parts only;
\* without top-level images or without a user message it changes no
\* message; in every case the handler goes on to the upstream call.
C18_TopLevelImagesToLastUserOnly ==
    [][(npc = "top_images" /\ npc' # "top_images") =>
          /\ npc' = "call"
          /\ Len(msgs') = Len(msgs)
          /\ \A i \in 1..Len(msgs) :
                IF IsLastUser(i) /\ req.images # <<>>
                THEN LET base == IF msgs[i].multi # <<>>
                                 THEN msgs[i].multi
                                 ELSE <<TextPart(msgs[i].content)>>
                         new == msgs'[i].multi
                     IN  /\ Len(new) = Len(base) + Len(req.images)
                         /\ SubSeq(new, 1, Len(base)) = base
                         /\ \A j \in (Len(base) + 1)..Len(new) :
                               IsImagePart(new[j])
                ELSE msgs'[i] = msgs[i]]_vars

C18_Witness ==
    /\ Normalized
    /\ req.kind = "chat"
    /\ Len(req.messages) = 2
    /\ req.messages[1].role = "user"
    /\ req.messages[2].role = "user"
    /\ req.messages[2].images = <<>>
    /\ req.images = <<"iVBORw0KG">>
    /\ msgs[1].multi = <<>>
    /\ msgs[2].multi = <<TextPart(req.messages[2].content),
                         ImagePart("data:image/png;base64,iVBORw0KG")>>

\* C19 (as claimed): no message has both text and parts; a message has
\* parts exactly when an image was attached to it, its text is then empty
\* and its first part is the Text part with the original text; all other
\* messages keep their text.
C19_PartsIffImagesAttached ==
    Normalized =>
       \A i \in 1..Len(msgs) :
          /\ ~(msgs[i].content # "" /\ msgs[i].multi # <<>>)
          /\ (msgs[i].multi # <<>>) <=> (ImageRefs(msgs[i]) # <<>>)
          /\ msgs[i].multi # <<>> =>
                /\ msgs[i].content = ""
                /\ msgs[i].multi[1] = TextPart(OriginalText(i))
          /\ msgs[i].multi = <<>> => msgs[i].content = OriginalText(i)

\* C19 (amended): no message has both text and parts; a message has parts
\* exactly when a non-empty image list was handled for it (its own list if
\* its role is user, the top-level list if it is the last user message,
\* the list of a completion call), whether or not an entry of the list was
\* non-empty; its text is then empty and its first part is the Text part
\* with the original text; all other messages keep their text.
C19_PartsIffImageListHandled ==
    Normalized =>
       \A i \in 1..Len(msgs) :
          /\ ~(msgs[i].content # "" /\ msgs[i].multi # <<>>)
          /\ (msgs[i].multi # <<>>)
                <=> \/ msgs[i].role = "user" /\ OwnImages(i) # <<>>
                    \/ TopImages(i) # <<>>
          /\ msgs[i].multi # <<>> =>
                /\ msgs[i].content = ""
                /\ msgs[i].multi[1] = TextPart(OriginalText(i))
          /\ msgs[i].multi = <<>> => msgs[i].content = OriginalText(i)

C19_Witness ==
    /\ Normalized
    /\ req.kind = "generate"
    /\ req.prompt = "hi"
    /\ req.system = "sys"
    /\ req.images = <<"">>
    /\ msgs = <<PlainMessage("system", "sys"),
                [role |-> "user", content |-> "",
                 multi |-> <<TextPart("hi")>>]>>

\* C20 (as claimed): every chat message with a non-empty image list of its
\* own, whatever its role, has as its first parts the Text part with its
\* text and one image part per non-empty image of the list, in order.
C20_AnyRoleConverted ==
    (Normalized /\ req.kind = "chat") =>
       \A i \in 1..Len(msgs) :
          req.messages[i].images # <<>> =>
             LET own == <<TextPart(req.messages[i].content)>>
                        \o ImagePartsAll(
                              NonEmptyEntries(req.messages[i].images))
             IN  /\ Len(msgs[i].multi) >= Len(own)
                 /\ SubSeq(msgs[i].multi, 1, Len(own)) = own

\* C20 (amended): every chat message of role user with a non-empty image
\* list of its own has as its first parts the Text part with its text and
\* one image part per non-empty image of the list, in order; a message of
\* any other role keeps its text and gets no parts, its images are
\* ignored.
C20_UserRoleConverted ==
    (Normalized /\ req.kind = "chat") =>
       \A i \in 1..Len(msgs) :
          req.messages[i].images # <<>> =>
             IF req.messages[i].role = "user"
             THEN LET own == <<TextPart(req.messages[i].content)>>
                             \o ImagePartsAll(
                                   NonEmptyEntries(req.messages[i].images))
                  IN  /\ Len(msgs[i].multi) >= Len(own)
                      /\ SubSeq(msgs[i].multi, 1, Len(own)) = own
             ELSE msgs[i] = PlainMessage(req.messages[i].role,
                                         req.messages[i].content)

C20_Witness ==
    /\ Normalized
    /\ req.kind = "chat"
    /\ Len(req.messages) = 2
    /\ req.messages[1] = [role |-> "assistant", content |-> "hi",
                          images |-> <<"iVBORw0KG">>]
    /\ req.messages[2] = [role |-> "user", content |-> "hi",
                          images |-> <<"", "/9j/4AAQ">>]
    /\ req.images = <<>>
    /\ msgs[1] = PlainMessage("assistant", "hi")
    /\ msgs[2].multi = <<TextPart("hi"),
                         ImagePart("data:image/jpeg;base64,/9j/4AAQ")>>

C28_CompletionMessages ==
    (Normalized /\ req.kind = "generate") =>
       LET sys == IF req.system # ""
                  THEN <<[role |-> "system", content |-> req.system,
                          multi |-> <<>>]>>
                  ELSE <<>>
           usr == IF req.images = <<>>
                  THEN [role |-> "user", content |-> req.prompt,
                        multi |-> <<>>]
                  ELSE [role |-> "user", content |-> "",
                        multi |-> <<TextPart(req.prompt)>>
                                  \o ImagePartsAll(
                                        NonEmptyEntries(req.images))]
       IN  msgs = sys \o <<usr>>

C28_Witness ==
    /\ Normalized
    /\ req.kind = "generate"
    /\ req.stream
    /\ req.system = "sys"
    /\ req.prompt = "hi"
    /\ req.images = <<"", "/9j/4AAQ">>
    /\ Len(msgs) = 2
    /\ msgs[1] = [role |-> "system", content |-> "sys", multi |-> <<>>]
    /\ msgs[2].multi = <<TextPart("hi"),
                         ImagePart("data:image/jpeg;base64,/9j/4AAQ")>>

====
